---- MODULE Spec2Model ----
(***************************************************************************)
(* Model of proxytest/base.go: the baseHost emulation of the proxy-wasm     *)
(* host calls (shared queues and the CAS-guarded shared data store).        *)
(*                                                                         *)
(* Two views of the same handlers are given:                                *)
(*   - one caller at a time (SpecSharedData, SpecQueue): every handler is   *)
(*     one action, from its first statement to its return;                  *)
(*   - several callers at once (SpecConc): base.go declares hostMux but no  *)
(*     handler locks it, so the handlers of different callers interleave    *)
(*     statement by statement.                                              *)
(***************************************************************************)
EXTENDS Integers, Sequences, FiniteSets, TLC

\* ------------------------------------------------------------------ bounds

\* Calls made by the single caller of SpecSharedData.
MaxCalls == 4

\* Calls made by the single caller of SpecQueue.
MaxQueueCalls == 7

\* Calls made by the single caller of SpecMetric.
MaxMetricCalls == 4

\* Calls made by the single caller of SpecLog.
MaxLogCalls == 5

\* Calls made by the single caller of SpecHost.
MaxHostCalls == 4

\* Calls made by each of the concurrent callers of SpecConc.
MaxCallerCalls == 3

\* ------------------------------------------------------- fixed-width values

\* A uint32 is kept as two 16-bit limbs, least significant first, because the
\* model checker's integers are narrower than 2^32.
Limb == 2 ^ 16

RECURSIVE AddLimbs(_, _, _)
\* a + b + carry on equally long limb sequences; the carry out of the last
\* limb is dropped, which is Go's wraparound of unsigned addition.
AddLimbs(a, b, carry) ==
    IF a = << >> THEN << >>
    ELSE LET s == Head(a) + Head(b) + carry
         IN  << s % Limb >> \o AddLimbs(Tail(a), Tail(b), s \div Limb)

U32(n) == << n % Limb, n \div Limb >>

U32Max == << Limb - 1, Limb - 1 >>

\* A uint64 is four 16-bit limbs, least significant first.
U64(n) == << n % Limb, n \div Limb, 0, 0 >>

U64Max == << Limb - 1, Limb - 1, Limb - 1, Limb - 1 >>

\* An int64 is a sign and a magnitude of four limbs; the magnitude of the
\* least int64 is 2^63.
Int64(neg, mag) == [neg |-> neg, mag |-> mag]

MaxInt64 == Int64(FALSE, << Limb - 1, Limb - 1, Limb - 1, (Limb \div 2) - 1 >>)

MinInt64 == Int64(TRUE, << 0, 0, 0, Limb \div 2 >>)

\* The bitwise complement of a limb sequence.
NotLimbs(a) == [i \in DOMAIN a |-> (Limb - 1) - a[i]]

\* Faulty variant: the conversion drops the sign.
Uint64OfMagnitude(offset) == offset.mag

\* uint64(offset) on an int64 (base.go:233): the two's complement bit
\* pattern, 2^64 - magnitude for a negative offset.
Uint64OfInt64(offset) ==
    IF offset.neg /\ offset.mag # U64(0)
    THEN AddLimbs(NotLimbs(offset.mag), U64(1), 0)
    ELSE offset.mag

\* cas + 1 on a uint32 (base.go:193, base.go:202).
CasPlusOne(cas) == AddLimbs(cas, U32(1), 0)

\* a < b as numbers.
LessU32(a, b) == a[2] < b[2] \/ (a[2] = b[2] /\ a[1] < b[1])

\* b is the number a + 1 (no wraparound).
IsNumericSucc(a, b) == a # U32Max /\ b = AddLimbs(a, U32(1), 0)

\* ------------------------------------------------------------------ inputs

Keys == {"k1", "k2"}

\* Byte slices passed as valueData/valueSize; valueSize may be 0.
Payloads == {<< >>, << 7 >>, << 7, 9 >>}

\* expectedCas arguments: small values and the top of the uint32 range.
CasArgs == {U32(0), U32(1), << Limb - 2, Limb - 1 >>, U32Max}

\* Queue names, and queue IDs a caller may pass (one more than can exist).
Names == {"q1", "q2"}

QueueIDs == 0 .. Cardinality(Names)

\* The concurrent callers (goroutines) of SpecConc and what they pass.
Callers == {1, 2}

ConcKeys == {"k1"}

ConcCasArgs == {U32(0), U32(1)}

\* Metric names, the kinds a metric may be defined with, the metric IDs a
\* caller may pass (one more than can exist), offsets and recorded values.
MetricNames == {"m1", "m2"}

MetricTypes == {"counter", "gauge"}

MetricIDs == 0 .. Cardinality(MetricNames)

Offsets == {Int64(FALSE, U64(1)), Int64(TRUE, U64(1)), MaxInt64, MinInt64}

MetricValues == {U64(5), U64Max}

\* types.LogLevelMax, the length of the logs array: levels are
\* 0 .. LogLevelMax-1. Package types sets its value; the handlers depend only
\* on comparisons with it, so the model keeps a small number of levels.
LogLevelMax == 3

LogLevels == 0 .. LogLevelMax - 1

\* Levels a caller may pass: valid ones and ones past the last level.
LevelArgs == {0, LogLevelMax - 1, LogLevelMax, LogLevelMax + 1}

Messages == {"a", "b"}

Periods == {0, 10, 250}

StatusOK == "OK"
StatusBadArgument == "BadArgument"
StatusNotFound == "NotFound"
StatusEmpty == "Empty"
StatusCasMismatch == "CasMismatch"
\* A Go run-time panic (index out of range) instead of a return.
Panic == "panic"
\* log.Fatalf: the process exits, nothing is returned and nothing can recover.
Fatal == "fatal"

\* ------------------------------------------------------------------- state

VARIABLES
    queues,         \* queue ID -> the pending payloads, head first
    queueNameID,    \* queue name -> queue ID
    sharedDataKVS,  \* key -> address of its sharedData object (a Go pointer)
    heap,           \* the sharedData objects: address -> [data, cas]
    hostMux,        \* holder of the package mutex, or NoCaller
    aborted,        \* the run ended (an unrecovered panic or a fatal error)
    ncalls,         \* calls made so far by the sequential caller
    ret,            \* the last call: its operation, arguments and results
    accepted,       \* key -> the accepted writes, oldest first
    enqueued,       \* queue ID -> payloads of the enqueues that returned OK
    dequeued,       \* queue ID -> payloads the dequeues returned with OK
    registered,     \* the first registrations in call order: [name, id]
    pc,             \* caller -> the statement of base.go it executes next
    loc,            \* caller -> the arguments and locals of its running call
    callsBy,        \* caller -> calls it has started
    lastGet,        \* caller -> what its get returned, if that was its last call
    rmw,            \* caller -> its last set made with the CAS of its last get
    metricIDToValue, \* metric ID -> its uint64 value
    metricIDToType, \* metric ID -> the kind it was defined with
    metricNameToID, \* metric name -> metric ID
    defined,        \* the first definitions in call order: [name, kind, id]
    metricBase,     \* metric ID -> its value after its define or last record
    metricDeltas,   \* metric ID -> the offsets of the increments made since
    logs,           \* log level -> the messages logged at it, oldest first
    tickPeriod,     \* the tick period in milliseconds
    recorded        \* log level -> the messages ProxyLog accepted, in call order

NoCaller == 0

dataVars == << sharedDataKVS, heap >>

queueVars == << queues, queueNameID >>

queueHist == << enqueued, dequeued, registered >>

concVars == << pc, loc, callsBy, lastGet, rmw >>

metricVars == << metricIDToValue, metricIDToType, metricNameToID >>

metricHist == << defined, metricBase, metricDeltas >>

logVars == << logs, tickPeriod >>

metricLogVars == << metricVars, metricHist, logVars, recorded >>

vars ==
    << queues, queueNameID, sharedDataKVS, heap, hostMux, aborted, ncalls,
       ret, accepted, enqueued, dequeued, registered, pc, loc, callsBy,
       lastGet, rmw, metricIDToValue, metricIDToType, metricNameToID,
       defined, metricBase, metricDeltas, logs, tickPeriod, recorded >>

\* No value: a nil pointer, no running call, no result.
None == [op |-> "none"]

\* newBaseHost: empty maps; hostMux is a zero sync.Mutex (unlocked).
Init ==
    /\ queues = << >>
    /\ queueNameID = << >>
    /\ enqueued = [id \in QueueIDs |-> << >>]
    /\ dequeued = [id \in QueueIDs |-> << >>]
    /\ registered = << >>
    /\ sharedDataKVS = << >>
    /\ heap = << >>
    /\ hostMux = NoCaller
    /\ aborted = FALSE
    /\ ncalls = 0
    /\ ret = None
    /\ accepted = [k \in Keys |-> << >>]
    /\ pc = [c \in Callers |-> "idle"]
    /\ loc = [c \in Callers |-> None]
    /\ callsBy = [c \in Callers |-> 0]
    /\ lastGet = [c \in Callers |-> None]
    /\ rmw = [c \in Callers |-> None]
    /\ metricIDToValue = << >>
    /\ metricIDToType = << >>
    /\ metricNameToID = << >>
    /\ defined = << >>
    /\ metricBase = [id \in MetricIDs |-> U64(0)]
    /\ metricDeltas = [id \in MetricIDs |-> << >>]
    /\ logs = [level \in LogLevels |-> << >>]
    /\ tickPeriod = 0
    /\ recorded = [level \in LogLevels |-> << >>]

\* A caller may make another call: the run has not ended.
CanCall(limit) == ~aborted /\ ncalls < limit

\* ------------------------------------------------------ shared data (atomic)

\* Faulty variant: the new entry keeps the caller's cas instead of cas + 1.
NewSharedDataSameCas(value, cas) == [data |-> value, cas |-> cas]

\* &sharedData{data: value, cas: cas + 1}
NewSharedData(value, cas) == [data |-> value, cas |-> CasPlusOne(cas)]

\* Faulty variant: the comparison of the stored CAS with the caller's is dropped.
CasMatchesAlways(prev, cas) == TRUE

\* prev.cas != cas is false
CasMatches(prev, cas) == prev.cas = cas

\* Faulty variant: an accepted write replaces the payload and leaves the CAS as it was.
UpdatedSharedDataSameCas(prev, value, cas) == [prev EXCEPT !.data = value]

\* b.sharedDataKVS[key].cas = cas + 1
WithCasOf(obj, cas) == [obj EXCEPT !.cas = CasPlusOne(cas)]

\* b.sharedDataKVS[key].data = value
WithData(obj, value) == [obj EXCEPT !.data = value]

\* Both assignments of an accepted write, in the order of the code.
UpdatedSharedData(prev, value, cas) == WithData(WithCasOf(prev, cas), value)

\* m[k] = v on a Go map
\* Faulty variant: the map is replaced by one that holds only the new entry.
MapOnly(m, k, v) == (k :> v)

MapSet(m, k, v) == (k :> v) @@ m

ProxySetSharedData(key, value, cas) ==
    /\ CanCall(MaxCalls)
    /\ ncalls' = ncalls + 1
    /\ UNCHANGED << metricLogVars, queueVars, queueHist, concVars, hostMux, aborted >>
    /\ IF key \notin DOMAIN sharedDataKVS
       THEN /\ heap' = Append(heap, NewSharedData(value, cas))
            /\ sharedDataKVS' = MapSet(sharedDataKVS, key, Len(heap) + 1)
            /\ accepted' = [accepted EXCEPT ![key] =
                   Append(@, [data |-> value, cas |-> heap'[Len(heap) + 1].cas,
                              expected |-> cas])]
            /\ ret' = [op |-> "set", key |-> key, value |-> value, cas |-> cas,
                       status |-> StatusOK]
       ELSE LET addr == sharedDataKVS[key]
                prev == heap[addr]
            IN  IF ~CasMatches(prev, cas)
                THEN /\ UNCHANGED << dataVars, accepted >>
                     /\ ret' = [op |-> "set", key |-> key, value |-> value,
                                cas |-> cas, status |-> StatusCasMismatch]
                ELSE /\ heap' = [heap EXCEPT ![addr] =
                                     UpdatedSharedData(prev, value, cas)]
                     /\ UNCHANGED sharedDataKVS
                     /\ accepted' = [accepted EXCEPT ![key] =
                            Append(@, [data |-> value, cas |-> heap'[addr].cas,
                                       expected |-> cas])]
                     /\ ret' = [op |-> "set", key |-> key, value |-> value,
                                cas |-> cas, status |-> StatusOK]

\* &value.data[0] panics on an empty slice; the caller either recovers the
\* panic (the run goes on) or does not (the run ends).
ProxyGetSharedData(key) ==
    /\ CanCall(MaxCalls)
    /\ ncalls' = ncalls + 1
    /\ UNCHANGED << metricLogVars, queueVars, queueHist, concVars, dataVars, hostMux,
                    accepted >>
    /\ IF key \notin DOMAIN sharedDataKVS
       THEN /\ ret' = [op |-> "get", key |-> key, status |-> StatusNotFound]
            /\ UNCHANGED aborted
       ELSE LET value == heap[sharedDataKVS[key]]
            IN  IF Len(value.data) = 0
                THEN /\ ret' = [op |-> "get", key |-> key, status |-> Panic]
                     /\ aborted' \in BOOLEAN
                ELSE /\ ret' = [op |-> "get", key |-> key, status |-> StatusOK,
                                size |-> Len(value.data), data |-> value.data,
                                cas |-> value.cas]
                     /\ UNCHANGED aborted

NextSharedData ==
    \/ \E key \in Keys, value \in Payloads, cas \in CasArgs :
          ProxySetSharedData(key, value, cas)
    \/ \E key \in Keys : ProxyGetSharedData(key)

SpecSharedData == Init /\ [][NextSharedData]_vars

\* ------------------------------------------------------------ queues (atomic)

\* Faulty variant: IDs are counted from 1.
NewQueueIDFromOne(qs) == Cardinality(DOMAIN qs) + 1

\* id := uint32(len(b.queues))
NewQueueID(qs) == Cardinality(DOMAIN qs)

ProxyRegisterSharedQueue(name) ==
    /\ CanCall(MaxQueueCalls)
    /\ ncalls' = ncalls + 1
    /\ UNCHANGED << metricLogVars, dataVars, accepted, concVars, hostMux, aborted, enqueued,
                    dequeued >>
    /\ IF name \in DOMAIN queueNameID
       THEN /\ ret' = [op |-> "register", name |-> name,
                       id |-> queueNameID[name], status |-> StatusOK]
            /\ UNCHANGED << queueVars, registered >>
       ELSE LET id == NewQueueID(queues)
            IN  /\ queues' = MapSet(queues, id, << >>)
                /\ queueNameID' = MapSet(queueNameID, name, id)
                /\ registered' = Append(registered, [name |-> name, id |-> id])
                /\ ret' = [op |-> "register", name |-> name, id |-> id,
                           status |-> StatusOK]

\* Faulty variant: a queue with one pending entry counts as empty.
IsEmptyQueueOffByOne(queue) == Len(queue) <= 1

\* len(queue) == 0
IsEmptyQueue(queue) == Len(queue) = 0

\* queue[1:]
RestOfQueue(queue) == Tail(queue)

\* &data[0] panics on an empty payload, before the head is removed.
ProxyDequeueSharedQueue(queueID) ==
    /\ CanCall(MaxQueueCalls)
    /\ ncalls' = ncalls + 1
    /\ UNCHANGED << metricLogVars, dataVars, accepted, concVars, hostMux, queueNameID,
                    enqueued, registered >>
    /\ IF queueID \notin DOMAIN queues
       THEN /\ ret' = [op |-> "dequeue", id |-> queueID,
                       status |-> StatusNotFound]
            /\ UNCHANGED << queues, dequeued, aborted >>
       ELSE LET queue == queues[queueID]
            IN  IF IsEmptyQueue(queue)
                THEN /\ ret' = [op |-> "dequeue", id |-> queueID,
                                status |-> StatusEmpty]
                     /\ UNCHANGED << queues, dequeued, aborted >>
                ELSE LET data == queue[1]
                     IN  IF Len(data) = 0
                         THEN /\ ret' = [op |-> "dequeue", id |-> queueID,
                                         status |-> Panic]
                              /\ aborted' \in BOOLEAN
                              /\ UNCHANGED << queues, dequeued >>
                         ELSE /\ queues' = MapSet(queues, queueID,
                                                  RestOfQueue(queue))
                              /\ dequeued' = [dequeued EXCEPT ![queueID] =
                                                  Append(@, data)]
                              /\ ret' = [op |-> "dequeue", id |-> queueID,
                                         status |-> StatusOK, data |-> data,
                                         size |-> Len(data)]
                              /\ UNCHANGED aborted

\* Faulty variant: the new payload is put at the head of the queue.
QueueWithAtHead(queue, value) == << value >> \o queue

\* append(queue, value)
QueueWith(queue, value) == Append(queue, value)

ProxyEnqueueSharedQueue(queueID, value) ==
    /\ CanCall(MaxQueueCalls)
    /\ ncalls' = ncalls + 1
    /\ UNCHANGED << metricLogVars, dataVars, accepted, concVars, hostMux, aborted,
                    queueNameID, dequeued, registered >>
    /\ IF queueID \notin DOMAIN queues
       THEN /\ ret' = [op |-> "enqueue", id |-> queueID, value |-> value,
                       status |-> StatusNotFound]
            /\ UNCHANGED << queues, enqueued >>
       ELSE /\ queues' = MapSet(queues, queueID,
                                QueueWith(queues[queueID], value))
            /\ enqueued' = [enqueued EXCEPT ![queueID] = Append(@, value)]
            /\ ret' = [op |-> "enqueue", id |-> queueID, value |-> value,
                       status |-> StatusOK]

\* Faulty variant: the number of queues instead of the length of one.
QueueLenOfMap(qs, queueID) == Cardinality(DOMAIN qs)

\* len(b.queues[queueID]); reading a missing key of a Go map gives the nil
\* slice, of length 0, and does not insert the key.
QueueLen(qs, queueID) ==
    IF queueID \in DOMAIN qs THEN Len(qs[queueID]) ELSE 0

GetQueueSize(queueID) ==
    /\ CanCall(MaxQueueCalls)
    /\ ncalls' = ncalls + 1
    /\ ret' = [op |-> "size", id |-> queueID, size |-> QueueLen(queues, queueID)]
    /\ UNCHANGED << metricLogVars, dataVars, accepted, concVars, hostMux, aborted, queueVars,
                    queueHist >>

NextQueue ==
    \/ \E queueID \in QueueIDs : GetQueueSize(queueID)
    \/ \E name \in Names : ProxyRegisterSharedQueue(name)
    \/ \E queueID \in QueueIDs : ProxyDequeueSharedQueue(queueID)
    \/ \E queueID \in QueueIDs, value \in Payloads :
          ProxyEnqueueSharedQueue(queueID, value)

SpecQueue == Init /\ [][NextQueue]_vars

\* One caller using both components.
\* ----------------------------------------------------------- metrics (atomic)

\* Faulty variant: every name is taken for a new one.
IsDefinedNever(names, name) == FALSE

\* id, ok := b.metricNameToID[name]
IsDefined(names, name) == name \in DOMAIN names

\* id = uint32(len(b.metricNameToID))
NewMetricID(names) == Cardinality(DOMAIN names)

\* Faulty variant: every ID is taken for a defined one.
MetricKnownAlways(values, metricID) == TRUE

\* _, ok := b.metricIDToValue[metricID]
MetricKnown(values, metricID) == metricID \in DOMAIN values

\* val := b.metricIDToValue[metricID]: the zero value for a missing key.
MetricValue(values, metricID) ==
    IF metricID \in DOMAIN values THEN values[metricID] ELSE U64(0)

\* val + uint64(offset), with the wraparound of uint64 addition.
IncrementedValue(val, offset) == AddLimbs(val, Uint64OfInt64(offset), 0)

\* Faulty variant: record adds to the stored value.
RecordedValueAdded(val, value) == AddLimbs(val, value, 0)

\* b.metricIDToValue[metricID] = value
RecordedValue(val, value) == value

ProxyDefineMetric(metricType, name) ==
    /\ CanCall(MaxMetricCalls)
    /\ ncalls' = ncalls + 1
    /\ IF IsDefined(metricNameToID, name)
       THEN /\ ret' = [op |-> "define", name |-> name, kind |-> metricType,
                       id |-> metricNameToID[name], status |-> StatusOK]
            /\ UNCHANGED << metricVars, metricHist >>
       ELSE LET id == NewMetricID(metricNameToID)
            IN  /\ metricNameToID' = MapSet(metricNameToID, name, id)
                /\ metricIDToValue' = MapSet(metricIDToValue, id, U64(0))
                /\ metricIDToType' = MapSet(metricIDToType, id, metricType)
                /\ defined' = Append(defined, [name |-> name,
                                               kind |-> metricType, id |-> id])
                /\ metricBase' = [metricBase EXCEPT ![id] = U64(0)]
                /\ metricDeltas' = [metricDeltas EXCEPT ![id] = << >>]
                /\ ret' = [op |-> "define", name |-> name, kind |-> metricType,
                           id |-> id, status |-> StatusOK]
    /\ UNCHANGED << dataVars, accepted, queueVars, queueHist, concVars, hostMux,
                    aborted, logVars, recorded >>

ProxyIncrementMetric(metricID, offset) ==
    /\ CanCall(MaxMetricCalls)
    /\ ncalls' = ncalls + 1
    /\ IF ~MetricKnown(metricIDToValue, metricID)
       THEN /\ ret' = [op |-> "increment", id |-> metricID, offset |-> offset,
                       status |-> StatusBadArgument]
            /\ UNCHANGED << metricVars, metricHist >>
       ELSE /\ metricIDToValue' =
                   MapSet(metricIDToValue, metricID,
                          IncrementedValue(MetricValue(metricIDToValue, metricID),
                                           offset))
            /\ metricDeltas' =
                   [metricDeltas EXCEPT ![metricID] = Append(@, offset)]
            /\ ret' = [op |-> "increment", id |-> metricID, offset |-> offset,
                       status |-> StatusOK]
            /\ UNCHANGED << metricIDToType, metricNameToID, defined, metricBase >>
    /\ UNCHANGED << dataVars, accepted, queueVars, queueHist, concVars, hostMux,
                    aborted, logVars, recorded >>

ProxyRecordMetric(metricID, value) ==
    /\ CanCall(MaxMetricCalls)
    /\ ncalls' = ncalls + 1
    /\ IF ~MetricKnown(metricIDToValue, metricID)
       THEN /\ ret' = [op |-> "record", id |-> metricID, value |-> value,
                       status |-> StatusBadArgument]
            /\ UNCHANGED << metricVars, metricHist >>
       ELSE LET new == RecordedValue(MetricValue(metricIDToValue, metricID),
                                     value)
            IN  /\ metricIDToValue' = MapSet(metricIDToValue, metricID, new)
                /\ metricBase' = [metricBase EXCEPT ![metricID] = new]
                /\ metricDeltas' = [metricDeltas EXCEPT ![metricID] = << >>]
                /\ ret' = [op |-> "record", id |-> metricID, value |-> value,
                           status |-> StatusOK]
                /\ UNCHANGED << metricIDToType, metricNameToID, defined >>
    /\ UNCHANGED << dataVars, accepted, queueVars, queueHist, concVars, hostMux,
                    aborted, logVars, recorded >>

ProxyGetMetric(metricID) ==
    /\ CanCall(MaxMetricCalls)
    /\ ncalls' = ncalls + 1
    /\ IF ~MetricKnown(metricIDToValue, metricID)
       THEN ret' = [op |-> "getMetric", id |-> metricID,
                    status |-> StatusBadArgument]
       ELSE ret' = [op |-> "getMetric", id |-> metricID,
                    value |-> MetricValue(metricIDToValue, metricID),
                    status |-> StatusOK]
    /\ UNCHANGED << metricVars, metricHist, dataVars, accepted, queueVars,
                    queueHist, concVars, hostMux, aborted, logVars, recorded >>

NextMetric ==
    \/ \E metricType \in MetricTypes, name \in MetricNames :
           ProxyDefineMetric(metricType, name)
    \/ \E metricID \in MetricIDs, offset \in Offsets :
           ProxyIncrementMetric(metricID, offset)
    \/ \E metricID \in MetricIDs, value \in MetricValues :
           ProxyRecordMetric(metricID, value)
    \/ \E metricID \in MetricIDs : ProxyGetMetric(metricID)

SpecMetric == Init /\ [][NextMetric]_vars

\* ------------------------------------------------- logs, tick period, buffers

\* Indexing a Go array: an index outside it is a run-time panic.
InBounds(array, index) == index \in DOMAIN array

\* Faulty variant: the new message is put first.
LogsWithAtHead(ls, logLevel, str) ==
    [ls EXCEPT ![logLevel] = << str >> \o @]

\* b.logs[logLevel] = append(b.logs[logLevel], str)
LogsWith(ls, logLevel, str) == [ls EXCEPT ![logLevel] = Append(@, str)]

\* ProxyLog does not compare logLevel with anything before it indexes the
\* array b.logs with it (base.go:70).
ProxyLog(logLevel, str) ==
    /\ CanCall(MaxLogCalls)
    /\ ncalls' = ncalls + 1
    /\ IF InBounds(logs, logLevel)
       THEN /\ logs' = LogsWith(logs, logLevel, str)
            /\ recorded' = [recorded EXCEPT ![logLevel] = Append(@, str)]
            /\ ret' = [op |-> "log", level |-> logLevel, message |-> str,
                       status |-> StatusOK]
            /\ UNCHANGED aborted
       ELSE /\ ret' = [op |-> "log", level |-> logLevel, message |-> str,
                       status |-> Panic]
            /\ aborted' \in BOOLEAN
            /\ UNCHANGED << logs, recorded >>
    /\ UNCHANGED << tickPeriod, metricVars, metricHist, dataVars, accepted,
                    queueVars, queueHist, concVars, hostMux >>

\* Faulty variant: the level one past the last is let through.
IsInvalidLevelPastMax(level) == level > LogLevelMax

\* level >= types.LogLevelMax
IsInvalidLevel(level) == level >= LogLevelMax

GetLogs(level) ==
    /\ CanCall(MaxLogCalls)
    /\ ncalls' = ncalls + 1
    /\ IF IsInvalidLevel(level)
       THEN /\ ret' = [op |-> "getLogs", level |-> level, status |-> Fatal]
            /\ aborted' = TRUE
       ELSE IF InBounds(logs, level)
       THEN /\ ret' = [op |-> "getLogs", level |-> level,
                       value |-> logs[level]]
            /\ UNCHANGED aborted
       ELSE /\ ret' = [op |-> "getLogs", level |-> level, status |-> Panic]
            /\ aborted' \in BOOLEAN
    /\ UNCHANGED << logVars, recorded, metricVars, metricHist, dataVars,
                    accepted, queueVars, queueHist, concVars, hostMux >>

\* panic("unimplemented"), whatever the arguments.
getBuffer ==
    /\ CanCall(MaxLogCalls)
    /\ ncalls' = ncalls + 1
    /\ ret' = [op |-> "getBuffer", status |-> Panic]
    /\ aborted' \in BOOLEAN
    /\ UNCHANGED << logVars, recorded, metricVars, metricHist, dataVars,
                    accepted, queueVars, queueHist, concVars, hostMux >>

ProxySetTickPeriodMilliseconds(period) ==
    /\ CanCall(MaxLogCalls)
    /\ ncalls' = ncalls + 1
    /\ tickPeriod' = period
    /\ ret' = [op |-> "setTick", period |-> period, status |-> StatusOK]
    /\ UNCHANGED << logs, recorded, metricVars, metricHist, dataVars, accepted,
                    queueVars, queueHist, concVars, hostMux, aborted >>

GetTickPeriod ==
    /\ CanCall(MaxLogCalls)
    /\ ncalls' = ncalls + 1
    /\ ret' = [op |-> "getTick", value |-> tickPeriod]
    /\ UNCHANGED << logVars, recorded, metricVars, metricHist, dataVars,
                    accepted, queueVars, queueHist, concVars, hostMux, aborted >>

NextLog ==
    \/ \E logLevel \in LevelArgs, str \in Messages : ProxyLog(logLevel, str)
    \/ \E level \in LevelArgs : GetLogs(level)
    \/ getBuffer
    \/ \E period \in Periods : ProxySetTickPeriodMilliseconds(period)
    \/ GetTickPeriod

SpecLog == Init /\ [][NextLog]_vars

\* ------------------------------------------------------------ the whole host

Next == NextSharedData \/ NextQueue \/ NextMetric \/ NextLog

Spec == Init /\ [][Next]_vars

\* One caller using every handler of the host, with two entities of each
\* component and one or two values of each further argument.
NextHost ==
    /\ ncalls < MaxHostCalls
    /\ \/ \E key \in Keys, value \in {<< >>, << 7 >>}, cas \in {U32(0), U32(1)} :
              ProxySetSharedData(key, value, cas)
       \/ \E key \in Keys : ProxyGetSharedData(key)
       \/ \E name \in Names : ProxyRegisterSharedQueue(name)
       \/ \E queueID \in {0, 1}, value \in {<< >>, << 7 >>} :
              ProxyEnqueueSharedQueue(queueID, value)
       \/ \E queueID \in {0, 1} : ProxyDequeueSharedQueue(queueID)
       \/ \E queueID \in {0, 1} : GetQueueSize(queueID)
       \/ \E name \in MetricNames : ProxyDefineMetric("counter", name)
       \/ \E metricID \in {0, 1} :
              ProxyIncrementMetric(metricID, Int64(TRUE, U64(1)))
       \/ \E metricID \in {0, 1} : ProxyRecordMetric(metricID, U64(5))
       \/ \E metricID \in {0, 1} : ProxyGetMetric(metricID)
       \/ \E logLevel \in {0, 1} : ProxyLog(logLevel, "a")
       \/ \E level \in {0, 1} : GetLogs(level)
       \/ getBuffer
       \/ ProxySetTickPeriodMilliseconds(10)
       \/ GetTickPeriod

SpecHost == Init /\ [][NextHost]_vars

\* ------------------------------------- shared data, statement by statement
\* No handler of base.go locks hostMux, so between two statements of one
\* caller's handler the statements of another caller's handler may run.

\* The caller is between the first statement and the return of a handler.
InBody(c) == pc[c] # "idle"

\* The caller may start another call.
MayCall(c) == ~aborted /\ pc[c] = "idle" /\ callsBy[c] < MaxCallerCalls

\* The handler of caller c returns from set with the given status.
SetReturns(c, status) ==
    /\ pc' = [pc EXCEPT ![c] = "idle"]
    /\ loc' = [loc EXCEPT ![c] = None]
    /\ lastGet' = [lastGet EXCEPT ![c] = None]
    /\ rmw' = [rmw EXCEPT ![c] =
                  IF loc[c].fromGet = None THEN None
                  ELSE [key |-> loc[c].key, got |-> loc[c].fromGet,
                        value |-> loc[c].value, status |-> status]]

\* ProxySetSharedData up to prev, ok := b.sharedDataKVS[key] and the branch
\* on ok (base.go:176-190).
SetEntry(c, key, value, cas) ==
    /\ LET fromGet ==
               IF /\ lastGet[c] # None
                  /\ lastGet[c].key = key
                  /\ lastGet[c].cas = cas
               THEN [data |-> lastGet[c].data, cas |-> lastGet[c].cas]
               ELSE None
           ok == key \in DOMAIN sharedDataKVS
       IN  /\ loc' = [loc EXCEPT ![c] =
                  [op |-> "set", key |-> key, value |-> value, cas |-> cas,
                   prev |-> IF ok THEN sharedDataKVS[key] ELSE 0,
                   fromGet |-> fromGet]]
           /\ pc' = [pc EXCEPT ![c] = IF ok THEN "set198" ELSE "set191"]
    /\ UNCHANGED << metricLogVars, queueVars, queueHist, dataVars, hostMux, aborted, ncalls,
                    ret, accepted, lastGet, rmw >>

\* A caller that may make another call starts ProxySetSharedData.
SetLookup(c, key, value, cas) ==
    /\ MayCall(c)
    /\ callsBy' = [callsBy EXCEPT ![c] = @ + 1]
    /\ SetEntry(c, key, value, cas)

\* b.sharedDataKVS[key] = &sharedData{...}; return types.StatusOK
\* (base.go:191-195).
SetCreate(c) ==
    /\ ~aborted
    /\ pc[c] = "set191"
    /\ heap' = Append(heap, NewSharedData(loc[c].value, loc[c].cas))
    /\ sharedDataKVS' = MapSet(sharedDataKVS, loc[c].key, Len(heap) + 1)
    /\ accepted' = [accepted EXCEPT ![loc[c].key] =
           Append(@, [data |-> loc[c].value, cas |-> heap'[Len(heap) + 1].cas,
                      expected |-> loc[c].cas])]
    /\ SetReturns(c, StatusOK)
    /\ UNCHANGED << metricLogVars, queueVars, queueHist, hostMux, aborted, ncalls, ret,
                    callsBy >>

\* if prev.cas != cas { return types.StatusCasMismatch } (base.go:198-200).
SetCompare(c) ==
    /\ ~aborted
    /\ pc[c] = "set198"
    /\ IF CasMatches(heap[loc[c].prev], loc[c].cas)
       THEN /\ pc' = [pc EXCEPT ![c] = "set202"]
            /\ UNCHANGED << loc, lastGet, rmw >>
       ELSE SetReturns(c, StatusCasMismatch)
    /\ UNCHANGED << metricLogVars, queueVars, queueHist, dataVars, hostMux, aborted, ncalls,
                    ret, accepted, callsBy >>

\* b.sharedDataKVS[key].cas = cas + 1 (base.go:202).
SetStoreCas(c) ==
    /\ ~aborted
    /\ pc[c] = "set202"
    /\ LET addr == sharedDataKVS[loc[c].key]
       IN  /\ heap' = [heap EXCEPT ![addr] = WithCasOf(@, loc[c].cas)]
           /\ accepted' = [accepted EXCEPT ![loc[c].key] =
                  Append(@, [data |-> loc[c].value, cas |-> heap'[addr].cas,
                             expected |-> loc[c].cas])]
    /\ pc' = [pc EXCEPT ![c] = "set203"]
    /\ UNCHANGED << metricLogVars, queueVars, queueHist, sharedDataKVS, hostMux, aborted,
                    ncalls, ret, loc, callsBy, lastGet, rmw >>

\* b.sharedDataKVS[key].data = value; return types.StatusOK (base.go:203-204).
SetStoreData(c) ==
    /\ ~aborted
    /\ pc[c] = "set203"
    /\ LET addr == sharedDataKVS[loc[c].key]
       IN  heap' = [heap EXCEPT ![addr] = WithData(@, loc[c].value)]
    /\ SetReturns(c, StatusOK)
    /\ UNCHANGED << metricLogVars, queueVars, queueHist, sharedDataKVS, hostMux, aborted,
                    ncalls, ret, accepted, callsBy >>

\* ProxyGetSharedData up to value, ok := b.sharedDataKVS[key] and
\* if !ok { return types.StatusNotFound } (base.go:157-168).
GetEntry(c, key) ==
    /\ IF key \in DOMAIN sharedDataKVS
       THEN /\ loc' = [loc EXCEPT ![c] =
                   [op |-> "get", key |-> key, value |-> sharedDataKVS[key],
                    size |-> 0, data |-> << >>]]
            /\ pc' = [pc EXCEPT ![c] = "get170"]
            /\ UNCHANGED lastGet
       ELSE /\ lastGet' = [lastGet EXCEPT ![c] = None]
            /\ UNCHANGED << pc, loc >>
    /\ UNCHANGED << metricLogVars, queueVars, queueHist, dataVars, hostMux, aborted, ncalls,
                    ret, accepted, rmw >>

\* A caller that may make another call starts ProxyGetSharedData.
GetLookup(c, key) ==
    /\ MayCall(c)
    /\ callsBy' = [callsBy EXCEPT ![c] = @ + 1]
    /\ GetEntry(c, key)

\* *returnValueSize = len(value.data) (base.go:170).
GetSize(c) ==
    /\ ~aborted
    /\ pc[c] = "get170"
    /\ loc' = [loc EXCEPT ![c].size = Len(heap[loc[c].value].data)]
    /\ pc' = [pc EXCEPT ![c] = "get171"]
    /\ UNCHANGED << metricLogVars, queueVars, queueHist, dataVars, hostMux, aborted, ncalls,
                    ret, accepted, callsBy, lastGet, rmw >>

\* *returnValueData = &value.data[0] (base.go:171); panics on an empty slice.
GetData(c) ==
    /\ ~aborted
    /\ pc[c] = "get171"
    /\ IF Len(heap[loc[c].value].data) = 0
       THEN /\ pc' = [pc EXCEPT ![c] = "idle"]
            /\ loc' = [loc EXCEPT ![c] = None]
            /\ lastGet' = [lastGet EXCEPT ![c] = None]
            /\ aborted' \in BOOLEAN
       ELSE /\ loc' = [loc EXCEPT ![c].data = heap[loc[c].value].data]
            /\ pc' = [pc EXCEPT ![c] = "get172"]
            /\ UNCHANGED << lastGet, aborted >>
    /\ UNCHANGED << metricLogVars, queueVars, queueHist, dataVars, hostMux, ncalls, ret,
                    accepted, callsBy, rmw >>

\* *returnCas = value.cas; return types.StatusOK (base.go:172-173).
GetCas(c) ==
    /\ ~aborted
    /\ pc[c] = "get172"
    /\ lastGet' = [lastGet EXCEPT ![c] =
           [op |-> "get", key |-> loc[c].key, size |-> loc[c].size,
            data |-> loc[c].data, cas |-> heap[loc[c].value].cas]]
    /\ pc' = [pc EXCEPT ![c] = "idle"]
    /\ loc' = [loc EXCEPT ![c] = None]
    /\ UNCHANGED << metricLogVars, queueVars, queueHist, dataVars, hostMux, aborted, ncalls,
                    ret, accepted, callsBy, rmw >>

\* The next statement of the caller reads or writes the map sharedDataKVS.
AtMapAccess(c) ==
    \/ pc[c] \in {"set191", "set202", "set203"}
    \/ pc[c] = "idle" /\ callsBy[c] < MaxCallerCalls

\* Caller c writes the map while another caller accesses it: the Go runtime
\* may detect the unsynchronised access and end the process ("fatal error:
\* concurrent map writes" / "concurrent map read and map write").
ConcurrentMapFault(c) ==
    /\ ~aborted
    /\ pc[c] = "set191"
    /\ \E d \in Callers \ {c} : AtMapAccess(d)
    /\ aborted' = TRUE
    /\ UNCHANGED << metricLogVars, queueVars, queueHist, dataVars, hostMux, ncalls, ret,
                    accepted, concVars >>

NextConc ==
    \/ \E c \in Callers, key \in ConcKeys, value \in Payloads,
          cas \in ConcCasArgs : SetLookup(c, key, value, cas)
    \/ \E c \in Callers : SetCreate(c)
    \/ \E c \in Callers : SetCompare(c)
    \/ \E c \in Callers : SetStoreCas(c)
    \/ \E c \in Callers : SetStoreData(c)
    \/ \E c \in Callers, key \in ConcKeys : GetLookup(c, key)
    \/ \E c \in Callers : GetSize(c)
    \/ \E c \in Callers : GetData(c)
    \/ \E c \in Callers : GetCas(c)
    \/ \E c \in Callers : ConcurrentMapFault(c)

SpecConc == Init /\ [][NextConc]_vars

\* ------------------------------------------------- compare-and-swap retry loop
\* Every caller runs: get(key); set(key, newPayload, cas); on CasMismatch
\* repeat from get. The handlers are the statement-level ones above; the key
\* is written once, by a single caller, before the loops start.

RetryKey == "k1"

\* The caller's set was accepted, which ends its loop.
Accepted(c) == rmw[c] # None /\ rmw[c].status = StatusOK

\* The caller is between two calls of its loop.
InLoop(c) ==
    /\ ~aborted
    /\ pc[c] = "idle"
    /\ RetryKey \in DOMAIN sharedDataKVS
    /\ ~Accepted(c)

\* The write that makes the key exist.
RetrySetup ==
    /\ RetryKey \notin DOMAIN sharedDataKVS
    /\ \E value \in Payloads : ProxySetSharedData(RetryKey, value, U32(0))

\* get(key): the first call of the loop and the call after a CasMismatch or
\* after a recovered panic.
RetryGet(c) ==
    /\ InLoop(c)
    /\ lastGet[c] = None
    /\ UNCHANGED callsBy
    /\ GetEntry(c, RetryKey)

\* set(key, newPayload, cas) with the CAS the get returned.
RetrySet(c) ==
    /\ InLoop(c)
    /\ lastGet[c] # None
    /\ UNCHANGED callsBy
    /\ \E value \in Payloads : SetEntry(c, RetryKey, value, lastGet[c].cas)

\* A step of caller c: a call of its loop or the next statement of its
\* running call.
RetryStep(c) ==
    \/ RetryGet(c)
    \/ RetrySet(c)
    \/ SetCompare(c)
    \/ SetStoreCas(c)
    \/ SetStoreData(c)
    \/ GetSize(c)
    \/ GetData(c)
    \/ GetCas(c)

NextRetry ==
    \/ RetrySetup
    \/ \E c \in Callers : RetryGet(c)
    \/ \E c \in Callers : RetrySet(c)
    \/ \E c \in Callers : SetCompare(c)
    \/ \E c \in Callers : SetStoreCas(c)
    \/ \E c \in Callers : SetStoreData(c)
    \/ \E c \in Callers : GetSize(c)
    \/ \E c \in Callers : GetData(c)
    \/ \E c \in Callers : GetCas(c)

\* Fair scheduling: the setup is made, and a caller (a goroutine) that can
\* take a step is not passed over for ever by the Go scheduler.
SpecRetry ==
    /\ Init
    /\ [][NextRetry]_vars
    /\ WF_vars(RetrySetup)
    /\ \A c \in Callers : WF_vars(RetryStep(c))

\* ------------------------------------------------- claims: shared data store

\* a + 1 modulo 2^32, limb by limb.
SuccMod32(a) ==
    IF a[1] + 1 < Limb THEN << a[1] + 1, a[2] >>
    ELSE << 0, (a[2] + 1) % Limb >>

\* The step is a call of set on a key that was already stored.
SetOnExistingKey ==
    /\ ncalls' = ncalls + 1
    /\ ret'.op = "set"
    /\ ret'.key \in DOMAIN sharedDataKVS

\* The step is a call of set on a key that was not stored yet.
SetOnNewKey ==
    /\ ncalls' = ncalls + 1
    /\ ret'.op = "set"
    /\ ret'.key \notin DOMAIN sharedDataKVS

\* C1 as stated: on an existing key set returns OK exactly when the stored CAS
\* equals expectedCas, then stores the payload and makes the stored CAS the
\* number expectedCas + 1; otherwise it returns CasMismatch and changes neither
\* the payload nor the CAS of that key.
C1_Original ==
    [][SetOnExistingKey =>
         LET old == heap[sharedDataKVS[ret'.key]]
             new == heap'[sharedDataKVS'[ret'.key]]
         IN  IF old.cas = ret'.cas
             THEN /\ ret'.status = StatusOK
                  /\ new.data = ret'.value
                  /\ IsNumericSucc(old.cas, new.cas)
             ELSE /\ ret'.status = StatusCasMismatch
                  /\ new = old]_vars

\* C1 amended: as C1, with the new stored CAS being expectedCas + 1 modulo
\* 2^32 (a stored CAS of 2^32 - 1 is followed by 0).
C1_SetExistingKey ==
    [][SetOnExistingKey =>
         LET old == heap[sharedDataKVS[ret'.key]]
             new == heap'[sharedDataKVS'[ret'.key]]
         IN  IF old.cas = ret'.cas
             THEN /\ ret'.status = StatusOK
                  /\ new.data = ret'.value
                  /\ new.cas = SuccMod32(ret'.cas)
                  /\ new.cas = SuccMod32(old.cas)
             ELSE /\ ret'.status = StatusCasMismatch
                  /\ new = old]_vars

\* C1 witness: an accepted set on an existing key whose stored CAS was
\* 2^32 - 1, after which the stored CAS is 0.
C1_Witness ==
    /\ ret.op = "set"
    /\ ret.status = StatusOK
    /\ ret.cas = U32Max
    /\ Len(accepted[ret.key]) >= 2
    /\ heap[sharedDataKVS[ret.key]].cas = U32(0)

\* C2 as stated: per key, the stored CAS values of the accepted writes start
\* at 1 and each is the number one above the previous one.
C2_Original ==
    \A k \in Keys :
        LET h == accepted[k]
        IN  /\ Len(h) >= 1 => h[1].cas = U32(1)
            /\ \A i \in 1 .. Len(h) - 1 :
                   /\ IsNumericSucc(h[i].cas, h[i + 1].cas)
                   /\ LessU32(h[i].cas, h[i + 1].cas)

\* C2 amended: per key, the stored CAS after the first accepted write is that
\* write's expectedCas + 1 modulo 2^32, and every later accepted write makes it
\* the previous stored CAS + 1 modulo 2^32, so the sequence increases by
\* exactly 1 at each write except for the step from 2^32 - 1 to 0.
C2_CasSequence ==
    \A k \in Keys :
        LET h == accepted[k]
        IN  /\ Len(h) >= 1 => h[1].cas = SuccMod32(h[1].expected)
            /\ \A i \in 1 .. Len(h) - 1 :
                   /\ h[i + 1].cas = SuccMod32(h[i].cas)
                   /\ h[i].cas # U32Max =>
                          /\ IsNumericSucc(h[i].cas, h[i + 1].cas)
                          /\ LessU32(h[i].cas, h[i + 1].cas)

\* C2 witness: three accepted writes to one key, the first of them not
\* leaving the stored CAS at 1.
C2_Witness ==
    \E k \in Keys :
        /\ Len(accepted[k]) >= 3
        /\ accepted[k][1].cas # U32(1)

\* C6 as stated: set on a key that does not exist returns OK for every
\* expectedCas and creates the entry with the payload and a stored CAS that
\* is the number expectedCas + 1.
C6_Original ==
    [][SetOnNewKey =>
         /\ ret'.status = StatusOK
         /\ ret'.key \in DOMAIN sharedDataKVS'
         /\ LET new == heap'[sharedDataKVS'[ret'.key]]
            IN  /\ new.data = ret'.value
                /\ IsNumericSucc(ret'.cas, new.cas)]_vars

\* C6 amended: as C6, with the stored CAS being expectedCas + 1 modulo 2^32
\* (expectedCas = 2^32 - 1 creates the entry with CAS 0).
C6_SetNewKey ==
    [][SetOnNewKey =>
         /\ ret'.status = StatusOK
         /\ ret'.key \in DOMAIN sharedDataKVS'
         /\ LET new == heap'[sharedDataKVS'[ret'.key]]
            IN  /\ new.data = ret'.value
                /\ new.cas = SuccMod32(ret'.cas)]_vars

\* C6 witness: the first write of a key was made with expectedCas = 2^32 - 1
\* and was accepted.
C6_Witness ==
    /\ ret.op = "set"
    /\ ret.status = StatusOK
    /\ ret.cas = U32Max
    /\ Len(accepted[ret.key]) = 1
    /\ heap[sharedDataKVS[ret.key]] = [data |-> ret.value, cas |-> U32(0)]

\* C7 as stated: get returns NotFound exactly when no set on the key was
\* ever accepted, and otherwise returns the payload and the CAS of the most
\* recent accepted set on that key.
C7_Original ==
    ret.op = "get" =>
        LET h == accepted[ret.key]
        IN  IF h = << >>
            THEN ret.status = StatusNotFound
            ELSE /\ ret.status = StatusOK
                 /\ ret.data = h[Len(h)].data
                 /\ ret.cas = h[Len(h)].cas

\* ------------------------------------------------ claims: concurrent callers

\* C3 as stated: when two callers got the same (payload, cas) pair for a key
\* from get and each then called set(key, newPayload, cas), at most one of the
\* two set calls returned OK.
C3_Original ==
    \A c, d \in Callers :
        (/\ c # d
         /\ rmw[c] # None
         /\ rmw[d] # None
         /\ rmw[c].key = rmw[d].key
         /\ rmw[c].got = rmw[d].got)
        => ~(rmw[c].status = StatusOK /\ rmw[d].status = StatusOK)

\* C4 as stated: every operation runs its whole body holding the one lock of
\* the environment, so that no two callers are inside a body at the same
\* time. (No handler acquires hostMux: it is NoCaller in every state.)
C4_Original ==
    \A c, d \in Callers :
        (c # d /\ InBody(c)) => ~InBody(d)

\* C5 as stated: the payload and the CAS that a get returns belong to the
\* same accepted write of that key.
C5_Original ==
    \A c \in Callers :
        lastGet[c] # None =>
            \E i \in DOMAIN accepted[lastGet[c].key] :
                LET w == accepted[lastGet[c].key][i]
                IN  /\ w.data = lastGet[c].data
                    /\ w.cas = lastGet[c].cas
                    /\ Len(w.data) = lastGet[c].size

\* ---------------------------------------------------------- claims: queues

\* The IDs that register has returned so far.
ReturnedIDs == {registered[i].id : i \in DOMAIN registered}

\* C8: for every queue the payloads returned by the successful dequeues are,
\* in order, the first payloads that were successfully enqueued on it: the
\* k-th successful dequeue returned the k-th enqueued payload.
C8_Fifo ==
    \A id \in QueueIDs :
        /\ Len(dequeued[id]) <= Len(enqueued[id])
        /\ \A k \in 1 .. Len(dequeued[id]) : dequeued[id][k] = enqueued[id][k]

\* C8 witness: two successful dequeues on one queue returned two different
\* payloads, with an enqueue on another queue between the two.
C8_Witness ==
    \E id, other \in QueueIDs :
        /\ id # other
        /\ Len(dequeued[id]) >= 2
        /\ dequeued[id][1] # dequeued[id][2]
        /\ enqueued[other] # << >>
        /\ ret.op = "dequeue"

\* The step is a call of register.
RegisterCall == ncalls' = ncalls + 1 /\ ret'.op = "register"

\* C9: register returns for a name that was registered before the ID it
\* returned then and changes no queue and no registration; the first
\* registrations of N distinct names return 0 .. N-1 in call order, and two
\* distinct names never share an ID.
C9_Register ==
    /\ [](\A i \in DOMAIN registered :
            /\ registered[i].id = i - 1
            /\ registered[i].name \in DOMAIN queueNameID
            /\ queueNameID[registered[i].name] = i - 1)
    /\ [](\A n1, n2 \in DOMAIN queueNameID :
            queueNameID[n1] = queueNameID[n2] => n1 = n2)
    /\ [][RegisterCall =>
            /\ ret'.status = StatusOK
            /\ IF \E i \in DOMAIN registered : registered[i].name = ret'.name
               THEN /\ \E i \in DOMAIN registered :
                          /\ registered[i].name = ret'.name
                          /\ registered[i].id = ret'.id
                    /\ UNCHANGED << queues, queueNameID, registered >>
               ELSE /\ ret'.id = Len(registered)
                    /\ ret'.id \in DOMAIN queues'
                    /\ queues'[ret'.id] = << >>
                    /\ \A id \in DOMAIN queues : queues'[id] = queues[id]]_vars

\* C9 witness: the first of two registered names is registered again while
\* its queue holds a payload.
C9_Witness ==
    /\ ret.op = "register"
    /\ Len(registered) = 2
    /\ ret.name = registered[1].name
    /\ ret.id = 0
    /\ queues[0] # << >>

\* The step is a call of enqueue or dequeue.
QueueCall == ncalls' = ncalls + 1 /\ ret'.op \in {"enqueue", "dequeue"}

\* C10: enqueue and dequeue return NotFound exactly when the ID was never
\* returned by register; dequeue returns Empty exactly when the ID is
\* registered and its queue holds no entries; in these cases every queue and
\* the registry stay as they were.
C10_QueueErrors ==
    [][QueueCall =>
         /\ ret'.status = StatusNotFound <=> ret'.id \notin ReturnedIDs
         /\ ret'.status = StatusEmpty <=>
                /\ ret'.op = "dequeue"
                /\ ret'.id \in ReturnedIDs
                /\ ret'.id \in DOMAIN queues
                /\ queues[ret'.id] = << >>
         /\ ret'.status \in {StatusNotFound, StatusEmpty} =>
                UNCHANGED << queues, queueNameID >>]_vars

\* C10 witness: a dequeue returned Empty on a queue that had been filled and
\* drained before.
C10_Witness ==
    /\ ret.op = "dequeue"
    /\ ret.status = StatusEmpty
    /\ Len(dequeued[ret.id]) >= 1

\* The step is a call of size.
SizeCall == ncalls' = ncalls + 1 /\ ret'.op = "size"

\* C11: size of a registered queue is the number of its successful enqueues
\* minus the number of its successful dequeues; size of an ID that register
\* never returned is 0, and the call registers nothing: the ID stays unknown
\* to enqueue and dequeue and the next new name still gets the next ID.
C11_Size ==
    /\ [][SizeCall =>
            /\ ret'.size = Len(enqueued[ret'.id]) - Len(dequeued[ret'.id])
            /\ ret'.id \notin ReturnedIDs => ret'.size = 0
            /\ UNCHANGED << queues, queueNameID >>]_vars
    /\ [][(ret.op = "size" /\ ret.id \notin ReturnedIDs /\ ncalls' = ncalls + 1) =>
            /\ (ret'.op \in {"enqueue", "dequeue"} /\ ret'.id = ret.id)
                   => ret'.status = StatusNotFound
            /\ (ret'.op = "register" /\ Len(registered') > Len(registered))
                   => ret'.id = Len(registered)]_vars

\* C11 witness: size returned 1 for a queue after two enqueues and one
\* dequeue on it.
C11_Witness ==
    /\ ret.op = "size"
    /\ ret.size = 1
    /\ Len(enqueued[ret.id]) = 2
    /\ Len(dequeued[ret.id]) = 1

\* --------------------------------------------------------- claims: metrics

\* The first definitions of a name made so far.
FirstDefinitions(name) ==
    {i \in 1 .. Len(defined) :
        defined[i].name = name /\ \A j \in 1 .. i - 1 : defined[j].name # name}

\* The names defined so far.
DefinedNames == {defined[i].name : i \in 1 .. Len(defined)}

\* The IDs define has returned so far.
DefinedIDs == {defined[i].id : i \in 1 .. Len(defined)}

\* The step is a call of define.
DefineCall == ncalls' = ncalls + 1 /\ ret'.op = "define"

\* C12: define on a name defined before returns the ID of the first
\* definition and changes no value, stored kind or name mapping, whatever
\* kind is passed; define on a new name returns the number of distinct names
\* defined before, stores value 0 and the kind passed, and leaves the other
\* metrics alone.
C12_Define ==
    [][DefineCall =>
        IF ret'.name \in DefinedNames
        THEN /\ \A i \in FirstDefinitions(ret'.name) :
                    /\ ret'.id = defined[i].id
                    /\ metricIDToType'[ret'.id] = defined[i].kind
             /\ UNCHANGED << metricIDToValue, metricIDToType, metricNameToID >>
        ELSE /\ ret'.id = Cardinality(DefinedNames)
             /\ metricIDToValue'[ret'.id] = U64(0)
             /\ metricIDToType'[ret'.id] = ret'.kind
             /\ \A id \in DOMAIN metricIDToValue :
                    /\ metricIDToValue'[id] = metricIDToValue[id]
                    /\ metricIDToType'[id] = metricIDToType[id]]_vars

\* C12 witness: define was repeated with another kind on a metric whose value
\* is no longer 0, and a second name has been defined.
C12_Witness ==
    /\ ret.op = "define"
    /\ Len(defined) = 2
    /\ \E i \in FirstDefinitions(ret.name) :
           /\ defined[i].kind # ret.kind
           /\ metricIDToValue[defined[i].id] # U64(0)

RECURSIVE SignedLimbSum(_, _)
\* The sum over the offsets of limb k of the magnitude, negative offsets
\* counted negative: an ordinary (unbounded) integer.
SignedLimbSum(offsets, k) ==
    IF offsets = << >> THEN 0
    ELSE (IF Head(offsets).neg THEN 0 - Head(offsets).mag[k]
          ELSE Head(offsets).mag[k]) + SignedLimbSum(Tail(offsets), k)

RECURSIVE ReduceMod64(_, _, _, _)
\* The limbs, from limb k on, of the number start + sum of the offsets
\* reduced modulo 2^64; borrow is the floor of the lower limbs' total
\* divided by their weight.
ReduceMod64(start, offsets, k, borrow) ==
    IF k > Len(start) THEN << >>
    ELSE LET total == start[k] + SignedLimbSum(offsets, k) + borrow
         IN  << total % Limb >>
                 \o ReduceMod64(start, offsets, k + 1,
                                (total - (total % Limb)) \div Limb)

\* start + the sum of the offsets, modulo 2^64.
SumMod64(start, offsets) == ReduceMod64(start, offsets, 1, 0)

\* C13: the value of a metric is its value at its definition or last record
\* plus the sum of the signed offsets of the increments made since, modulo
\* 2^64; get returns that value; increment on a defined metric returns OK
\* for every offset.
C13_Increment ==
    /\ \A id \in DOMAIN metricIDToValue :
           metricIDToValue[id] = SumMod64(metricBase[id], metricDeltas[id])
    /\ (ret.op = "getMetric" /\ ret.id \in DefinedIDs) =>
           /\ ret.status = StatusOK
           /\ ret.value = SumMod64(metricBase[ret.id], metricDeltas[ret.id])
    /\ (ret.op = "increment" /\ ret.id \in DefinedIDs) =>
           ret.status = StatusOK

\* C13 witness: get returned 0 for a metric that started at 0 and was
\* incremented by -1 (wrapping below zero) and then by 1 (wrapping above the
\* largest value).
C13_Witness ==
    /\ ret.op = "getMetric"
    /\ ret.status = StatusOK
    /\ metricBase[ret.id] = U64(0)
    /\ metricDeltas[ret.id] = << Int64(TRUE, U64(1)), Int64(FALSE, U64(1)) >>
    /\ ret.value = U64(0)

\* The step is a call of increment, record or get on a metric.
MetricCall ==
    ncalls' = ncalls + 1 /\ ret'.op \in {"increment", "record", "getMetric"}

\* C14: increment, record and get return BadArgument exactly when define
\* never returned the ID, and OK otherwise; a call that returns BadArgument
\* changes no value, kind or name mapping and creates no entry.
C14_BadArgument ==
    [][MetricCall =>
        /\ ret'.status = StatusBadArgument <=> ret'.id \notin DefinedIDs
        /\ ret'.status \in {StatusOK, StatusBadArgument}
        /\ ret'.status = StatusBadArgument =>
               /\ UNCHANGED << metricIDToValue, metricIDToType, metricNameToID >>
               /\ ret'.id \notin DOMAIN metricIDToValue'
               /\ ret'.id \notin DOMAIN metricIDToType']_vars

\* C14 witness: record returned BadArgument for an ID that define has not
\* returned, while another metric exists.
C14_Witness ==
    /\ ret.op = "record"
    /\ ret.status = StatusBadArgument
    /\ DefinedIDs # {}
    /\ ret.id \notin DefinedIDs

\* C15: record on a defined metric returns OK and stores exactly the value
\* passed, whatever the metric's value and kind were, leaving the kind alone;
\* a get of that metric made next returns OK with that value.
C15_Record ==
    /\ [][(ncalls' = ncalls + 1 /\ ret'.op = "record"
                /\ ret'.id \in DefinedIDs) =>
            /\ ret'.status = StatusOK
            /\ metricIDToValue'[ret'.id] = ret'.value
            /\ metricIDToType' = metricIDToType]_vars
    /\ [][(ret.op = "record" /\ ret.status = StatusOK /\ ncalls' = ncalls + 1
                /\ ret'.op = "getMetric" /\ ret'.id = ret.id) =>
            /\ ret'.status = StatusOK
            /\ ret'.value = ret.value]_vars

\* C15 witness: get returned 5 for a counter whose last change was a record
\* of 5.
C15_Witness ==
    /\ ret.op = "getMetric"
    /\ ret.status = StatusOK
    /\ ret.value = U64(5)
    /\ metricIDToType[ret.id] = "counter"
    /\ metricBase[ret.id] = U64(5)
    /\ metricDeltas[ret.id] = << >>

\* ------------------------------------------------------------ claims: logs

\* The statuses a call may return.
Statuses ==
    {StatusOK, StatusNotFound, StatusEmpty, StatusCasMismatch,
     StatusBadArgument}

\* The last call ended by a panic or a fatal error instead of returning.
CallAborted == "status" \in DOMAIN ret /\ ret.status \in {Panic, Fatal}

\* The last call is one of the two that are meant to abort: a retrieve of a
\* level outside the range, or a buffer access.
ContractViolation ==
    \/ ret.op = "getBuffer"
    \/ ret.op = "getLogs" /\ ret.level >= LogLevelMax

\* C16 (as stated): every call other than a retrieve of an out-of-range level
\* and a buffer access returns a value or one of the five statuses and never
\* aborts; a log record returns OK for every level.
C16_Original ==
    /\ ~ContractViolation => ~CallAborted
    /\ (~ContractViolation /\ "status" \in DOMAIN ret) => ret.status \in Statuses
    /\ ret.op = "log" => ret.status = StatusOK

\* C17: a retrieve of a level >= LogLevelMax ends the run by a fatal error and
\* returns nothing; a buffer access ends by a panic and returns no status and
\* no value; a retrieve of a valid level returns the messages and does not
\* abort; no call is made after the run has ended.
C17_Fatal ==
    /\ [](ret.op = "getLogs" =>
            IF ret.level >= LogLevelMax
            THEN /\ "value" \notin DOMAIN ret
                 /\ ret.status = Fatal
                 /\ aborted
            ELSE /\ "value" \in DOMAIN ret
                 /\ "status" \notin DOMAIN ret)
    /\ [](ret.op = "getBuffer" =>
            /\ "value" \notin DOMAIN ret
            /\ ret.status = Panic)
    /\ [][(ncalls' = ncalls + 1 /\ ret'.op = "getLogs"
                /\ ret'.level < LogLevelMax) => ~aborted']_vars
    /\ [][~aborted]_vars

\* C17 witness: a retrieve of the level LogLevelMax ended the run after
\* messages had been logged.
C17_Witness ==
    /\ ret.op = "getLogs"
    /\ ret.level = LogLevelMax
    /\ ret.status = Fatal
    /\ aborted
    /\ \E level \in LogLevels : logs[level] # << >>

\* C18: for every valid level the stored messages are exactly the messages
\* recorded at that level, in call order, and retrieve returns them; a step
\* changes the messages of a level only by a record at that level, which
\* appends its message at the end.
C18_Logs ==
    /\ [](\A level \in LogLevels : logs[level] = recorded[level])
    /\ []((ret.op = "getLogs" /\ ret.level \in LogLevels) =>
            ret.value = recorded[ret.level])
    /\ [][\A level \in LogLevels :
            \/ logs'[level] = logs[level]
            \/ /\ ncalls' = ncalls + 1
               /\ ret'.op = "log"
               /\ ret'.level = level
               /\ logs'[level] = Append(logs[level], ret'.message)]_vars
    /\ [][(ncalls' = ncalls + 1 /\ ret'.op = "log"
                /\ ret'.level \in LogLevels) =>
            /\ ret'.status = StatusOK
            /\ logs'[ret'.level] = Append(logs[ret'.level], ret'.message)]_vars

\* C18 witness: retrieve returned two messages in the order they were
\* recorded while another level holds a message too.
C18_Witness ==
    /\ ret.op = "getLogs"
    /\ ret.level \in LogLevels
    /\ ret.value = << "b", "a" >>
    /\ \E level \in LogLevels \ {ret.level} : logs[level] # << >>

\* ------------------------------------------------------- claims: whole host

\* The stored pair of a key, or None for a key never written.
EntryOf(kvs, hp, key) == IF key \in DOMAIN kvs THEN hp[kvs[key]] ELSE None

\* The value a map holds for a key, or None for a missing key.
At(m, k) == IF k \in DOMAIN m THEN m[k] ELSE None

\* Every key but the given one holds what it held.
OtherKeysKept(key) ==
    \A k \in Keys \ {key} :
        EntryOf(sharedDataKVS', heap', k) = EntryOf(sharedDataKVS, heap, k)

\* Every queue but the given one is as it was.
OtherQueuesKept(id) ==
    \A i \in QueueIDs \ {id} : At(queues', i) = At(queues, i)

\* Every metric but the given one has the value and the kind it had.
OtherMetricsKept(id) ==
    \A m \in MetricIDs \ {id} :
        /\ At(metricIDToValue', m) = At(metricIDToValue, m)
        /\ At(metricIDToType', m) = At(metricIDToType, m)

\* The shared-data store as its callers can see it is unchanged.
DataKept == \A k \in Keys :
    EntryOf(sharedDataKVS', heap', k) = EntryOf(sharedDataKVS, heap, k)

\* C19: a step of a call leaves every component but its own unchanged and,
\* within its component, every entity but the one it names; the read-only
\* calls leave everything unchanged.
C19_Frame ==
    [][ncalls' = ncalls + 1 =>
        CASE ret'.op = "set" ->
                /\ OtherKeysKept(ret'.key)
                /\ UNCHANGED << queueVars, metricVars, logVars >>
          [] ret'.op = "register" ->
                /\ OtherQueuesKept(ret'.id)
                /\ \A name \in Names \ {ret'.name} :
                       At(queueNameID', name) = At(queueNameID, name)
                /\ DataKept
                /\ UNCHANGED << metricVars, logVars >>
          [] ret'.op \in {"enqueue", "dequeue"} ->
                /\ OtherQueuesKept(ret'.id)
                /\ DataKept
                /\ UNCHANGED << queueNameID, metricVars, logVars >>
          [] ret'.op = "define" ->
                /\ OtherMetricsKept(ret'.id)
                /\ \A name \in MetricNames \ {ret'.name} :
                       At(metricNameToID', name) = At(metricNameToID, name)
                /\ DataKept
                /\ UNCHANGED << queueVars, logVars >>
          [] ret'.op \in {"increment", "record"} ->
                /\ OtherMetricsKept(ret'.id)
                /\ DataKept
                /\ UNCHANGED << metricIDToType, metricNameToID, queueVars,
                                logVars >>
          [] ret'.op = "log" ->
                /\ \A level \in LogLevels \ {ret'.level} :
                       logs'[level] = logs[level]
                /\ DataKept
                /\ UNCHANGED << tickPeriod, queueVars, metricVars >>
          [] ret'.op = "setTick" ->
                /\ DataKept
                /\ UNCHANGED << logs, queueVars, metricVars >>
          [] ret'.op \in {"get", "size", "getMetric", "getLogs", "getTick",
                           "getBuffer"} ->
                UNCHANGED << dataVars, queueVars, metricVars, logVars >>]_vars

\* C19 witness: an enqueue on one queue was accepted while the other queue, a
\* key of the shared-data store and a metric exist.
C19_Witness ==
    /\ ret.op = "enqueue"
    /\ ret.status = StatusOK
    /\ DOMAIN queues \ {ret.id} # {}
    /\ \/ DOMAIN sharedDataKVS # {}
       \/ DOMAIN metricIDToValue # {}
       \/ \E level \in LogLevels : logs[level] # << >>

\* ------------------------------------------------------ claims: retry loop

\* C20 (as stated): under fair scheduling the set of every caller of the
\* retry loop is eventually accepted, so the callers never all fail for
\* ever, and a caller inside a call can always take its next step, whatever
\* the other callers do.
C20_Original ==
    /\ <>(\A c \in Callers : Accepted(c))
    /\ [](\A c \in Callers : (InBody(c) /\ ~aborted) => ENABLED RetryStep(c))

====
